---- MODULE Spec2Model ----
(***************************************************************************)
(* LexAI: the document intake workflow (app/core/workflow.py), its         *)
(* components (validator.py, analyzer.py, doc_process.py), the analyze     *)
(* endpoint (main.py) and the conversational session workflow              *)
(* (rag_workflow.py, main.py /chat).                                       *)
(*                                                                         *)
(* A text is modelled by its lengths: slen is len(text.strip()), pad the   *)
(* number of surrounding whitespace characters, so len(text) = slen + pad. *)
(* A reply of the reasoning service is one of: "return" with a value (an   *)
(* object of the requested schema, None, or an object without the schema's *)
(* attributes), "raise", or "timeout" (the asyncio.wait_for deadline).     *)
(* The fields of a returned object are the service's: the schema fixes     *)
(* their types only.                                                       *)
(***************************************************************************)
EXTENDS Integers, Sequences, FiniteSets, TLC

VARIABLES
    comp,      \* a component called on its own: its input, the reply and its result
    dpc,       \* Document Workflow: the node about to run ("idle" between requests)
    dstate,    \* Document Workflow: the DocumentState of the run
    dlog,      \* Document Workflow: nodes run, components invoked, service calls issued
    dhttp,     \* analyze endpoint: the response to the request
    memory,         \* Session Workflow: the checkpointer, thread id -> saved RAGState
    vector_stores,  \* Session Workflow: RAGWorkflow.vector_stores, session id -> index
    builds,         \* Session Workflow: indexes built so far (names each index)
    turns,          \* Session Workflow: graph invocations so far
    rq              \* /chat requests in flight: position, RAGState, response

compVars == <<comp>>
docVars == <<dpc, dstate, dlog, dhttp>>
sessVars == <<memory, vector_stores, builds, turns, rq>>
vars == <<comp, dpc, dstate, dlog, dhttp, memory, vector_stores, builds, turns, rq>>

---------------------------------------------------------------------------
\* Bounds of the model.
MaxExtra == 2
MaxPad == 1
MaxClauses == 6
MaxTurns == 3
MaxRace == 2

\* Program constants.
MIN_LEN == 100
SAMPLE_LEN == 1500
max_chars == 8000
MARKER_LEN == 35
REJECTION_PREFIX == 500

Min(a, b) == IF a < b THEN a ELSE b

None == [type |-> "None"]

\* A Python str where None is also possible.
Str(s) == [type |-> "str", value |-> s]

\* An object that is not None and has none of the schema's attributes.
Malformed == [type |-> "object"]

hasattr(obj, name) == name \in DOMAIN obj

---------------------------------------------------------------------------
\* Texts.
Lens ==
    (0 .. (MIN_LEN + MaxExtra))
        \cup {REJECTION_PREFIX, REJECTION_PREFIX + 1, SAMPLE_LEN, SAMPLE_LEN + 1,
              max_chars, max_chars + 1}

Texts == [slen : Lens, pad : 0 .. MaxPad]

\* len(text)
TextLen(text) == text.slen + text.pad

\* text.strip()
Strip(text) == [slen |-> text.slen, pad |-> 0]

\* len(text[:n])
PrefixLen(text, n) == Min(TextLen(text), n)

EmptyText == [slen |-> 0, pad |-> 0]

---------------------------------------------------------------------------
\* app/models.py
ValidatorResponse(decision) == [type |-> "ValidatorResponse", decision |-> decision]

AnalyzerResponse(decision, document_type, summary, important_clauses) ==
    [type |-> "AnalyzerResponse", decision |-> decision,
     document_type |-> document_type, summary |-> summary,
     important_clauses |-> important_clauses]

RejectionResponse(decision, reason) ==
    [type |-> "RejectionResponse", decision |-> decision, reason |-> reason]

\* What a component call gives its caller: the value returned (or raised |-> TRUE
\* when an exception leaves the component) and the reasoning-service calls issued.
Returned(value, calls) == [value |-> value, raised |-> FALSE, calls |-> calls]

Raised(calls) == [value |-> None, raised |-> TRUE, calls |-> calls]

LLMCall(to, promptText) == [to |-> to, promptText |-> promptText]

---------------------------------------------------------------------------
\* Replies of the reasoning service to the validator's structured request.
\* decision is Literal["accept", "reject"]: any other string fails to parse and
\* is a "raise".
ValidatorReplies ==
    {[kind |-> "return", value |-> ValidatorResponse(d)] : d \in {"accept", "reject"}}
        \cup {[kind |-> "return", value |-> None],
              [kind |-> "return", value |-> Malformed],
              [kind |-> "raise"], [kind |-> "timeout"]}

\* ContentValidator.is_legal_document with the threshold one character too low.
is_legal_document_Low(text, llm) ==
    IF Strip(text).slen < MIN_LEN - 1
    THEN Returned(ValidatorResponse("reject"), <<>>)
    ELSE LET call == LLMCall("validator", PrefixLen(text, SAMPLE_LEN))
         IN  IF llm.kind = "return" /\ llm.value # None /\ hasattr(llm.value, "decision")
             THEN Returned(llm.value, <<call>>)
             ELSE Returned(ValidatorResponse("reject"), <<call>>)

\* ContentValidator.is_legal_document admitting the document when the call times out.
is_legal_document_Open(text, llm) ==
    IF Strip(text).slen < MIN_LEN
    THEN Returned(ValidatorResponse("reject"), <<>>)
    ELSE LET call == LLMCall("validator", PrefixLen(text, SAMPLE_LEN))
         IN  CASE llm.kind = "timeout" -> Returned(ValidatorResponse("accept"), <<call>>)
               [] llm.kind = "raise" -> Returned(ValidatorResponse("reject"), <<call>>)
               [] OTHER ->
                    IF llm.value # None /\ hasattr(llm.value, "decision")
                    THEN Returned(llm.value, <<call>>)
                    ELSE Returned(ValidatorResponse("reject"), <<call>>)

\* ContentValidator.is_legal_document
is_legal_document(text, llm) ==
    IF Strip(text).slen < MIN_LEN
    THEN Returned(ValidatorResponse("reject"), <<>>)
    ELSE LET sample_text == IF TextLen(text) > SAMPLE_LEN
                            THEN PrefixLen(text, SAMPLE_LEN) ELSE TextLen(text)
             call == LLMCall("validator", sample_text)
         IN  CASE llm.kind = "timeout" -> Returned(ValidatorResponse("reject"), <<call>>)
               [] llm.kind = "raise" -> Returned(ValidatorResponse("reject"), <<call>>)
               [] OTHER ->
                    IF llm.value # None /\ hasattr(llm.value, "decision")
                    THEN Returned(llm.value, <<call>>)
                    ELSE Returned(ValidatorResponse("reject"), <<call>>)

---------------------------------------------------------------------------
\* Replies of the reasoning service to the analyzer's structured request: every
\* field of AnalyzerResponse is the service's, the list of any length.
Clauses(n) == [i \in 1 .. n |-> "clause"]

AnalyzerValues ==
    {AnalyzerResponse(d, t, s, Clauses(n)) :
        d \in {"accept", "reject"}, t \in {"", "Rental Agreement"},
        s \in {"", "summary"}, n \in 0 .. MaxClauses}

AnalyzerReplies ==
    {[kind |-> "return", value |-> v] : v \in AnalyzerValues}
        \cup {[kind |-> "return", value |-> None],
              [kind |-> "return", value |-> Malformed],
              [kind |-> "raise"], [kind |-> "timeout"]}

FallbackNone ==
    AnalyzerResponse("accept", "Unknown",
        "Analysis could not be completed due to structured output failure.",
        <<"No structured response received from analyzer",
          "Please try uploading the document again",
          "If issue persists, contact support">>)

FallbackTimeout ==
    AnalyzerResponse("accept", "Unknown",
        "Document analysis timed out. Please try with a smaller document.",
        <<"Analysis timed out due to document complexity or size",
          "Try uploading a smaller document",
          "Consider breaking large documents into sections">>)

FallbackError ==
    AnalyzerResponse("accept", "Unknown",
        "Document analysis failed: <e>. Please try again or consult a legal professional.",
        <<"Analysis encountered an error",
          "Document may require manual review",
          "Consider consulting a legal professional">>)

\* len of the document text the analyzer puts in its prompt
AnalyzerPromptText(text) ==
    IF TextLen(text) > max_chars
    THEN PrefixLen(text, max_chars) + MARKER_LEN
    ELSE TextLen(text)

\* DocumentAnalyzer.analyze letting the service's exception out.
analyze_Raising(document_text, llm) ==
    LET call == LLMCall("analyzer", AnalyzerPromptText(document_text))
    IN  CASE llm.kind = "timeout" -> Returned(FallbackTimeout, <<call>>)
          [] llm.kind = "raise" -> Raised(<<call>>)
          [] OTHER ->
               IF llm.value = None THEN Returned(FallbackNone, <<call>>)
               ELSE IF ~hasattr(llm.value, "document_type")
                    THEN Returned(FallbackError, <<call>>)
                    ELSE Returned(llm.value, <<call>>)

\* DocumentAnalyzer.analyze
analyze(document_text, llm) ==
    LET call == LLMCall("analyzer", AnalyzerPromptText(document_text))
    IN  CASE llm.kind = "timeout" -> Returned(FallbackTimeout, <<call>>)
          [] llm.kind = "raise" -> Returned(FallbackError, <<call>>)
          [] OTHER ->
               IF llm.value = None THEN Returned(FallbackNone, <<call>>)
               \* logger.info reads result.document_type inside the try
               ELSE IF ~hasattr(llm.value, "document_type")
                    THEN Returned(FallbackError, <<call>>)
                    ELSE Returned(llm.value, <<call>>)

---------------------------------------------------------------------------
\* Replies of the reasoning service to the rejection-reason request. The call has
\* no asyncio deadline: a client-side timeout is a "raise". A reply that does not
\* parse as RejectionResponse is a "raise"; no tool call is None.
RejectionValues ==
    {RejectionResponse(d, r) :
        d \in {"reject", "accept"}, r \in {"", "Not a legal document."}}

RejectionReplies ==
    {[kind |-> "return", value |-> v] : v \in RejectionValues}
        \cup {[kind |-> "return", value |-> None], [kind |-> "raise"]}

CannedNone ==
    RejectionResponse("reject",
        "This document was rejected because it does not appear to be a legal document.")

CannedError ==
    RejectionResponse("reject", "Document was rejected during validation process")

\* DocumentWorkflow._generate_rejection_reason passing a null reply on.
generate_rejection_reason_Null(document_text, llm) ==
    LET call == LLMCall("rejection", PrefixLen(document_text, REJECTION_PREFIX))
    IN  CASE llm.kind = "raise" -> Returned(CannedError, <<call>>)
          [] OTHER -> Returned(llm.value, <<call>>)

\* DocumentWorkflow._generate_rejection_reason
generate_rejection_reason(document_text, llm) ==
    LET call == LLMCall("rejection", PrefixLen(document_text, REJECTION_PREFIX))
    IN  CASE llm.kind = "raise" -> Returned(CannedError, <<call>>)
          [] OTHER ->
               IF llm.value = None THEN Returned(CannedNone, <<call>>)
               ELSE Returned(llm.value, <<call>>)

---------------------------------------------------------------------------
\* Uploaded files: the name's extension, the size of the content, what the
\* format's parser does with it, and the text the parser reads.
FileNames == {"", "lease.pdf", "lease.docx", "notes.txt"}

GoodFiles ==
    {[filename |-> f, size |-> "ok", parse |-> "ok", raw |-> t] :
        f \in {"lease.pdf", "lease.docx"}, t \in Texts}

BadFiles ==
    {[filename |-> f, size |-> z, parse |-> p, raw |-> EmptyText] :
        f \in FileNames, z \in {"empty", "ok", "toobig"},
        p \in {"ok", "timeout", "error"}}

Files == GoodFiles \cup BadFiles

\* filename.lower().endswith(ext) for an allowed extension
AllowedExtension(filename) == filename \in {"lease.pdf", "lease.docx"}

HTTPException(status_code, detail) ==
    [value |-> None, raised |-> TRUE, calls |-> <<>>,
     status_code |-> status_code, detail |-> detail]

\* DocumentProcessor._extract_from_pdf / _extract_from_docx
extract_from(format, file) ==
    CASE file.parse = "timeout" ->
            HTTPException(408, format \o " processing timed out. Please try with a smaller file.")
      [] file.parse = "error" ->
            HTTPException(400, "Failed to extract text from " \o format \o ": <e>")
      [] OTHER ->
            IF Strip(file.raw).slen = 0
            THEN HTTPException(400, "Failed to extract text from " \o format
                                    \o ": No readable text found in " \o format)
            ELSE Returned(Strip(file.raw), <<>>)

\* DocumentProcessor.extract_text
extract_text(file) ==
    IF file.filename = "" THEN HTTPException(400, "File must have a name")
    ELSE IF ~AllowedExtension(file.filename)
    THEN HTTPException(400, "Only PDF and DOCX files are supported")
    ELSE IF file.size = "toobig"
    THEN HTTPException(413, "File size exceeds maximum allowed size")
    ELSE IF file.size = "empty" THEN HTTPException(400, "File is empty")
    ELSE IF file.filename = "lease.pdf" THEN extract_from("PDF", file)
    ELSE extract_from("DOCX", file)

---------------------------------------------------------------------------
\* Document Workflow (app/core/workflow.py).

\* What running a node gives the graph: the state it returns (raised |-> TRUE when
\* an exception leaves the node), the components it invoked and the
\* reasoning-service calls they issued.
NodeOut(state, invoked, calls) ==
    [state |-> state, raised |-> FALSE, invoked |-> invoked, calls |-> calls]

NodeRaised(state, invoked, calls) ==
    [state |-> state, raised |-> TRUE, invoked |-> invoked, calls |-> calls]

\* DocumentWorkflow._extract_text_node without its try/except.
extract_text_node_NoCatch(state) ==
    LET r == extract_text(state.file)
    IN  IF r.raised
        THEN NodeRaised(state, <<"extractor">>, <<>>)
        ELSE NodeOut([state EXCEPT !.document_text = r.value], <<"extractor">>, <<>>)

\* DocumentWorkflow._extract_text_node
extract_text_node(state) ==
    LET r == extract_text(state.file)
    IN  IF r.raised
        THEN NodeOut([state EXCEPT
                        !.error = Str("Text extraction failed: " \o r.detail),
                        !.result = RejectionResponse("reject",
                            "Could not extract text from document: " \o r.detail)],
                     <<"extractor">>, <<>>)
        ELSE NodeOut([state EXCEPT !.document_text = r.value], <<"extractor">>, <<>>)

\* DocumentWorkflow._validate_document_node
validate_document_node(state, llm) ==
    LET r == is_legal_document(state.document_text, llm)
    IN  IF r.raised
        THEN NodeOut([state EXCEPT
                        !.result = RejectionResponse("reject", "Validation failed: <e>")],
                     <<"validator">>, r.calls)
        ELSE IF r.value = None \/ ~hasattr(r.value, "decision")
        THEN NodeOut([state EXCEPT
                        !.result = RejectionResponse("reject", "Document validation failed")],
                     <<"validator">>, r.calls)
        ELSE NodeOut([state EXCEPT !.validation_decision = r.value.decision],
                     <<"validator">>, r.calls)

\* DocumentWorkflow._route_after_validation, with the conditional edges' map
route_after_validation(state) ==
    IF state.result # None THEN "generate_rejection"
    ELSE IF state.validation_decision = "reject" THEN "generate_rejection"
    ELSE "analyze_document"

\* DocumentWorkflow._analyze_document_node dropping the analysis it was given.
analyze_document_node_NoStore(state, llm) ==
    LET r == analyze(state.document_text, llm)
    IN  IF r.raised
        THEN NodeOut([state EXCEPT
                        !.result = RejectionResponse("reject", "Analysis failed: <e>")],
                     <<"analyzer">>, r.calls)
        ELSE NodeOut(state, <<"analyzer">>, r.calls)

\* DocumentWorkflow._analyze_document_node
analyze_document_node(state, llm) ==
    LET r == analyze(state.document_text, llm)
    IN  IF r.raised
        THEN NodeOut([state EXCEPT
                        !.result = RejectionResponse("reject", "Analysis failed: <e>")],
                     <<"analyzer">>, r.calls)
        ELSE NodeOut([state EXCEPT !.result = r.value], <<"analyzer">>, r.calls)

\* DocumentWorkflow._generate_rejection_node without the passthrough of an
\* existing result.
generate_rejection_node_Always(state, llm) ==
    LET r == generate_rejection_reason(state.document_text, llm)
    IN  IF r.raised
        THEN NodeOut([state EXCEPT !.result = CannedError], <<"rejection">>, r.calls)
        ELSE NodeOut([state EXCEPT !.result = r.value], <<"rejection">>, r.calls)

\* DocumentWorkflow._generate_rejection_node
generate_rejection_node(state, llm) ==
    IF state.result # None THEN NodeOut(state, <<>>, <<>>)
    ELSE LET r == generate_rejection_reason(state.document_text, llm)
         IN  IF r.raised
             THEN NodeOut([state EXCEPT !.result = CannedError], <<"rejection">>, r.calls)
             ELSE NodeOut([state EXCEPT !.result = r.value], <<"rejection">>, r.calls)

\* DocumentWorkflow.process_document: the initial state of a run
initial_state(file) ==
    [file |-> file, document_text |-> EmptyText, validation_decision |-> "",
     result |-> None, error |-> None]

NoRun == [file |-> None, document_text |-> EmptyText, validation_decision |-> "",
          result |-> None, error |-> None]

EmptyLog == [nodes |-> <<>>, invoked |-> <<>>, calls |-> <<>>, decision |-> ""]

\* The graph runs node `name`, which gave `out`, and moves to `next`; an exception
\* out of a node ends the run.
Ran(name, out, next) ==
    /\ dstate' = out.state
    /\ dlog' = [dlog EXCEPT !.nodes = Append(@, name),
                            !.invoked = @ \o out.invoked,
                            !.calls = @ \o out.calls]
    /\ dpc' = IF out.raised THEN "aborted" ELSE next
    /\ UNCHANGED <<dhttp, compVars, sessVars>>

\* main.analyze_document up to the call of workflow.process_document
AnalyzeRequest ==
    /\ dpc = "idle"
    /\ \E file \in Files :
        IF file.filename = ""
        THEN /\ dhttp' = [status_code |-> 400, detail |-> "File must have a name"]
             /\ dpc' = "responded"
             /\ dstate' = NoRun
        ELSE IF ~AllowedExtension(file.filename)
        THEN /\ dhttp' = [status_code |-> 400,
                          detail |-> "Only PDF and DOCX files are supported"]
             /\ dpc' = "responded"
             /\ dstate' = NoRun
        ELSE /\ dhttp' = None
             /\ dpc' = "extract_text"
             /\ dstate' = initial_state(file)
    /\ dlog' = EmptyLog
    /\ UNCHANGED <<compVars, sessVars>>

ExtractText ==
    /\ dpc = "extract_text"
    /\ Ran("extract_text", extract_text_node(dstate), "validate_document")

ValidateDocument ==
    /\ dpc = "validate_document"
    /\ \E llm \in ValidatorReplies :
        LET out == validate_document_node(dstate, llm)
        IN  /\ dstate' = out.state
            /\ dlog' = [dlog EXCEPT !.nodes = Append(@, "validate_document"),
                                    !.invoked = @ \o out.invoked,
                                    !.calls = @ \o out.calls,
                                    !.decision = is_legal_document(dstate.document_text,
                                                                   llm).value.decision]
            /\ dpc' = IF out.raised THEN "aborted" ELSE route_after_validation(out.state)
            /\ UNCHANGED <<dhttp, compVars, sessVars>>

AnalyzeDocument ==
    /\ dpc = "analyze_document"
    /\ \E llm \in AnalyzerReplies :
        Ran("analyze_document", analyze_document_node(dstate, llm), "END")

GenerateRejection ==
    /\ dpc = "generate_rejection"
    /\ \E llm \in RejectionReplies :
        Ran("generate_rejection", generate_rejection_node(dstate, llm), "END")

\* main.analyze_document from the return of workflow.process_document
analyze_response(result) ==
    IF result = None
    THEN [status_code |-> 500, detail |-> "Document processing failed"]
    ELSE IF result.type = "RejectionResponse"
    THEN [status_code |-> 200,
          content |-> [decision |-> result.decision, reason |-> result.reason]]
    ELSE IF result.type = "AnalyzerResponse"
    THEN [status_code |-> 200,
          content |-> [decision |-> result.decision,
                       document_type |-> result.document_type,
                       summary |-> result.summary,
                       important_clauses |-> result.important_clauses]]
    ELSE [status_code |-> 500, detail |-> "Unexpected response format"]

AnalyzeRespond ==
    /\ dpc \in {"END", "aborted"}
    /\ dhttp' = IF dpc = "aborted"
                THEN [status_code |-> 500, detail |-> "An unexpected error occurred."]
                ELSE analyze_response(dstate.result)
    /\ dpc' = "responded"
    /\ UNCHANGED <<dstate, dlog, compVars, sessVars>>

\* The response is sent and the run's state discarded.
AnalyzeDone ==
    /\ dpc = "responded"
    /\ dpc' = "idle"
    /\ dstate' = NoRun
    /\ dlog' = EmptyLog
    /\ dhttp' = None
    /\ UNCHANGED <<compVars, sessVars>>

DocNext ==
    \/ AnalyzeRequest
    \/ ExtractText
    \/ ValidateDocument
    \/ AnalyzeDocument
    \/ GenerateRejection
    \/ AnalyzeRespond
    \/ AnalyzeDone

---------------------------------------------------------------------------
\* Session Workflow (app/core/rag_workflow.py) and the /chat endpoint (main.py).

Sids == {"s1", "s2"}

\* The session_id form field: absent, the placeholder, or an id.
SessionParams == {"", "string"} \cup Sids

Question == "What is the notice period?"

\* The message form field: absent, empty, blank, or a question.
Messages == {None, Str(""), Str("  "), Str(Question)}

\* message.strip()
StripMessage(message) == IF message.value = "  " THEN "" ELSE message.value

ShortDocument == [slen |-> MIN_LEN - 1, pad |-> 0]

LongDocument == [slen |-> MIN_LEN, pad |-> 0]

\* The file form field: absent, or an upload.
SessionFiles ==
    {None}
        \cup {[filename |-> "lease.pdf", size |-> "ok", parse |-> "ok", raw |-> t] :
                t \in {ShortDocument, LongDocument}}
        \cup {[filename |-> "lease.docx", size |-> "ok", parse |-> "timeout",
               raw |-> EmptyText],
              [filename |-> "notes.txt", size |-> "ok", parse |-> "ok", raw |-> EmptyText],
              [filename |-> "", size |-> "ok", parse |-> "ok", raw |-> EmptyText]}

NoIndexMessage == "No document has been processed for this session."

AnswerErrorMessage ==
    "I encountered an error while processing your legal query. Please try again."

IndexErrorMessage == "Error processing document. Please try again."

RefusalMessage == "I can only help with legal documents. Please upload a valid document."

Answer == "The notice period is 30 days."

\* The state a request passes to app.ainvoke (chat's initial_state and the
\* endpoint's): the keys it sets.
RAGInput(document_content, user_message, session_id, messages, document_processed) ==
    [document_content |-> document_content, user_message |-> user_message,
     session_id |-> session_id, messages |-> messages,
     document_processed |-> document_processed]

\* app.ainvoke on a thread: the saved channel values, each key of the input
\* written over them; a channel never written is None.
MergeInput(checkpoint, input) ==
    [document_content |-> input.document_content,
     user_message |-> input.user_message,
     session_id |-> input.session_id,
     messages |-> input.messages,
     document_processed |-> input.document_processed,
     validation_result |-> IF checkpoint = None THEN None ELSE checkpoint.validation_result,
     vector_store_id |-> IF checkpoint = None THEN None ELSE checkpoint.vector_store_id,
     response |-> IF checkpoint = None THEN None ELSE checkpoint.response]

\* The processed flag the checkpointer holds for a session.
SavedProcessed(sid) == IF memory[sid] = None THEN FALSE ELSE memory[sid].document_processed

\* The history the checkpointer holds for a session.
SavedMessages(sid) == IF memory[sid] = None THEN <<>> ELSE memory[sid].messages

\* _route_decision validating only a session that was never validated before.
route_decision_FirstUploadOnly(state) ==
    LET has_content == TextLen(state.document_content) > 0
        already_processed == state.document_processed
    IN  IF has_content /\ ~already_processed /\ state.validation_result = None
        THEN "validate_document"
        ELSE "answer_question"

\* RAGWorkflow._route_decision, with the conditional edges' map
route_decision(state) ==
    LET has_content == TextLen(state.document_content) > 0
        already_processed == state.document_processed
    IN  IF has_content /\ ~already_processed THEN "validate_document"
        ELSE "answer_question"

\* RAGWorkflow._validate_document
validate_document(state, llm) ==
    IF TextLen(state.document_content) = 0
    THEN NodeOut([state EXCEPT !.validation_result = ValidatorResponse("reject")],
                 <<>>, <<>>)
    ELSE LET r == is_legal_document(state.document_content, llm)
         IN  IF r.raised
             THEN NodeOut([state EXCEPT !.validation_result = ValidatorResponse("reject")],
                          <<"validator">>, r.calls)
             ELSE NodeOut([state EXCEPT !.validation_result = r.value],
                          <<"validator">>, r.calls)

\* _should_process_document answering "process" whatever the validator decided.
should_process_document_Always(state) == "process_document"

\* RAGWorkflow._should_process_document, with the conditional edges' map
should_process_document(state) ==
    IF state.validation_result.decision = "accept" THEN "process_document"
    ELSE "handle_rejection"

\* The index FAISS.from_documents builds from the chunks of a text.
IndexHandle(text, n) == [doc |-> text, build |-> n]

\* RAGWorkflow._process_document: the state it returns. indexer is what splitting
\* and embedding did: "ok" or "raise".
process_document(state, indexer) ==
    IF indexer = "ok"
    THEN NodeOut([state EXCEPT !.vector_store_id = state.session_id,
                               !.document_processed = TRUE],
                 <<"indexer">>, <<>>)
    ELSE NodeOut([state EXCEPT !.response = Str(IndexErrorMessage)], <<"indexer">>, <<>>)

\* _process_document keeping the index a session already has.
process_document_stores_FirstWins(stores, state, indexer, n) ==
    IF indexer = "ok" /\ stores[state.session_id] = None
    THEN [stores EXCEPT ![state.session_id] = IndexHandle(state.document_content, n)]
    ELSE stores

\* _process_document building the index without storing it.
process_document_stores_Skip(stores, state, indexer, n) == stores

\* _process_document keeping one store for all sessions.
process_document_stores_Shared(stores, state, indexer, n) ==
    IF indexer = "ok"
    THEN [stores EXCEPT !["s1"] = IndexHandle(state.document_content, n)]
    ELSE stores

\* RAGWorkflow._process_document: self.vector_stores after it
process_document_stores(stores, state, indexer, n) ==
    IF indexer = "ok"
    THEN [stores EXCEPT ![state.session_id] = IndexHandle(state.document_content, n)]
    ELSE stores

\* _answer_question appending the user's entry before the chain is invoked.
answer_question_EagerUser(state, stores, retrieval, llm) ==
    LET vector_store == stores[state.session_id]
        asked == [state EXCEPT !.messages = @ \o
                    <<[role |-> "user", content |-> state.user_message]>>]
    IN  IF vector_store = None
        THEN NodeOut([state EXCEPT !.response = Str(NoIndexMessage)], <<>>, <<>>)
        ELSE IF retrieval = "raise"
        THEN NodeOut([state EXCEPT !.response = Str(AnswerErrorMessage)],
                     <<"retriever">>, <<>>)
        ELSE LET call == [to |-> "answerer", question |-> state.user_message,
                          chat_history |-> state.messages, context |-> vector_store]
             IN  IF llm.kind = "raise"
                 THEN NodeOut([asked EXCEPT !.response = Str(AnswerErrorMessage)],
                              <<"retriever", "answerer">>, <<call>>)
                 ELSE NodeOut([asked EXCEPT
                                 !.response = Str(llm.content),
                                 !.messages = @ \o
                                    <<[role |-> "assistant", content |-> llm.content]>>],
                              <<"retriever", "answerer">>, <<call>>)

\* _answer_question appending the assistant's entry alone.
answer_question_AssistantOnly(state, stores, retrieval, llm) ==
    LET vector_store == stores[state.session_id]
    IN  IF vector_store = None
        THEN NodeOut([state EXCEPT !.response = Str(NoIndexMessage)], <<>>, <<>>)
        ELSE IF retrieval = "raise"
        THEN NodeOut([state EXCEPT !.response = Str(AnswerErrorMessage)],
                     <<"retriever">>, <<>>)
        ELSE LET call == [to |-> "answerer", question |-> state.user_message,
                          chat_history |-> state.messages, context |-> vector_store]
             IN  IF llm.kind = "raise"
                 THEN NodeOut([state EXCEPT !.response = Str(AnswerErrorMessage)],
                              <<"retriever", "answerer">>, <<call>>)
                 ELSE NodeOut([state EXCEPT
                                 !.response = Str(llm.content),
                                 !.messages = @ \o
                                    <<[role |-> "assistant", content |-> llm.content]>>],
                              <<"retriever", "answerer">>, <<call>>)

\* _answer_question without the check that the session has an index: the retriever
\* is asked for on no store, which raises into the except branch.
answer_question_NoGuard(state, stores, retrieval, llm) ==
    LET vector_store == stores[state.session_id]
    IN  IF vector_store = None \/ retrieval = "raise"
        THEN NodeOut([state EXCEPT !.response = Str(AnswerErrorMessage)],
                     <<"retriever">>, <<>>)
        ELSE LET call == [to |-> "answerer", question |-> state.user_message,
                          chat_history |-> state.messages, context |-> vector_store]
             IN  IF llm.kind = "raise"
                 THEN NodeOut([state EXCEPT !.response = Str(AnswerErrorMessage)],
                              <<"retriever", "answerer">>, <<call>>)
                 ELSE NodeOut([state EXCEPT
                                 !.response = Str(llm.content),
                                 !.messages = @ \o
                                    <<[role |-> "user", content |-> state.user_message],
                                      [role |-> "assistant", content |-> llm.content]>>],
                              <<"retriever", "answerer">>, <<call>>)

\* _answer_question without its try/except.
answer_question_NoCatch(state, stores, retrieval, llm) ==
    LET vector_store == stores[state.session_id]
    IN  IF vector_store = None
        THEN NodeOut([state EXCEPT !.response = Str(NoIndexMessage)], <<>>, <<>>)
        ELSE IF retrieval = "raise"
        THEN NodeRaised(state, <<"retriever">>, <<>>)
        ELSE LET call == [to |-> "answerer", question |-> state.user_message,
                          chat_history |-> state.messages, context |-> vector_store]
             IN  IF llm.kind = "raise"
                 THEN NodeRaised(state, <<"retriever", "answerer">>, <<call>>)
                 ELSE NodeOut([state EXCEPT
                                 !.response = Str(llm.content),
                                 !.messages = @ \o
                                    <<[role |-> "user", content |-> state.user_message],
                                      [role |-> "assistant", content |-> llm.content]>>],
                              <<"retriever", "answerer">>, <<call>>)

\* RAGWorkflow._answer_question. retrieval is what the retriever did ("ok",
\* "raise"), llm the reply to the chat request.
answer_question(state, stores, retrieval, llm) ==
    LET vector_store == stores[state.session_id]
    IN  IF vector_store = None
        THEN NodeOut([state EXCEPT !.response = Str(NoIndexMessage)], <<>>, <<>>)
        ELSE IF retrieval = "raise"
        THEN NodeOut([state EXCEPT !.response = Str(AnswerErrorMessage)],
                     <<"retriever">>, <<>>)
        ELSE LET call == [to |-> "answerer", question |-> state.user_message,
                          chat_history |-> state.messages, context |-> vector_store]
             IN  IF llm.kind = "raise"
                 THEN NodeOut([state EXCEPT !.response = Str(AnswerErrorMessage)],
                              <<"retriever", "answerer">>, <<call>>)
                 ELSE NodeOut([state EXCEPT
                                 !.response = Str(llm.content),
                                 !.messages = @ \o
                                    <<[role |-> "user", content |-> state.user_message],
                                      [role |-> "assistant", content |-> llm.content]>>],
                              <<"retriever", "answerer">>, <<call>>)

\* Replies of the reasoning service to the chat request.
ChatReplies == {[kind |-> "return", content |-> Answer], [kind |-> "raise"]}

\* RAGWorkflow._handle_rejection
handle_rejection(state) ==
    NodeOut([state EXCEPT !.response = Str(RefusalMessage),
                          !.document_processed = FALSE],
            <<>>, <<>>)

ChatResponse(response, session_id, document_processed) ==
    [status_code |-> 200, response |-> response, session_id |-> session_id,
     document_processed |-> document_processed]

HTTPError(status_code, detail) == [status_code |-> status_code, detail |-> detail]

\* Request slots. The turns of SpecSession come one after another, in slot 1.
Reqs == {1}

\* The slots of requests the server handles at the same time (SpecConcurrent).
Slots == {1, 2}

IdleRequest == [pc |-> "idle"]

\* A request that was answered before the graph ran.
Refused(status_code, detail) ==
    [pc |-> "responded", kind |-> "refused", http |-> HTTPError(status_code, detail)]

\* A request whose graph run starts: the merged state, and what the session held
\* when the request arrived.
Started(kind, sid, input, file) ==
    [pc |-> "route_initial", kind |-> kind, sid |-> sid, file |-> file,
     state |-> MergeInput(memory[sid], input),
     nodes |-> <<>>, invoked |-> <<>>, calls |-> <<>>,
     processed_at_entry |-> SavedProcessed(sid),
     messages_at_entry |-> SavedMessages(sid),
     index_at_entry |-> vector_stores[sid],
     http |-> None]

\* chat_with_document without the check for a message when no file is given.
chat_request_NoMessageCheck(message, sid, file, saved) ==
    LET named == file # None /\ file.filename # ""
        blank == message = None \/ StripMessage(message) = ""
        text == IF message = None THEN "" ELSE StripMessage(message)
    IN  IF named /\ ~AllowedExtension(file.filename)
        THEN Refused(400, "Only PDF and DOCX files are supported")
        ELSE IF blank /\ named
        THEN LET r == extract_text(file)
             IN  IF r.raised THEN Refused(500, "Failed to process document")
                 ELSE Started("upload", sid, RAGInput(r.value, "", sid, <<>>, FALSE), file)
        ELSE LET messages == IF saved = "ok" THEN SavedMessages(sid) ELSE <<>>
                 document_processed == IF saved = "ok" THEN SavedProcessed(sid) ELSE FALSE
             IN  IF file # None /\ ~document_processed
                 THEN LET r == extract_text(file)
                      IN  IF r.raised THEN Refused(r.status_code, r.detail)
                          ELSE Started("chat", sid,
                                       RAGInput(r.value, text, sid, messages, FALSE), file)
                 ELSE Started("chat", sid,
                              RAGInput(EmptyText, text, sid, messages, document_processed),
                              file)

\* main.chat_with_document up to app.ainvoke, with RAGWorkflow.chat up to
\* app.ainvoke: the request slot it leaves. sid is the session id after the
\* endpoint's generation step; saved is what self.memory.get gave chat ("ok": the
\* saved values, "raise": the except branch's defaults).
chat_request(message, sid, file, saved) ==
    LET named == file # None /\ file.filename # ""
        blank == message = None \/ StripMessage(message) = ""
    IN  IF named /\ ~AllowedExtension(file.filename)
        THEN Refused(400, "Only PDF and DOCX files are supported")
        ELSE IF blank
        THEN IF named
             THEN LET r == extract_text(file)
                  IN  IF r.raised THEN Refused(500, "Failed to process document")
                      ELSE Started("upload", sid,
                                   RAGInput(r.value, "", sid, <<>>, FALSE), file)
             ELSE Refused(400, "Message is required when no file is provided")
        ELSE LET messages == IF saved = "ok" THEN SavedMessages(sid) ELSE <<>>
                 document_processed == IF saved = "ok" THEN SavedProcessed(sid) ELSE FALSE
             IN  IF file # None /\ ~document_processed
                 THEN LET r == extract_text(file)
                      IN  IF r.raised THEN Refused(r.status_code, r.detail)
                          ELSE Started("chat", sid,
                                       RAGInput(r.value, StripMessage(message), sid,
                                                messages, FALSE), file)
                 ELSE Started("chat", sid,
                              RAGInput(EmptyText, StripMessage(message), sid,
                                       messages, document_processed), file)

\* Ids the endpoint's generation step can give: an id no session has used.
FreshIds == {g \in Sids : memory[g] = None /\ vector_stores[g] = None}

ChatRequest(r) ==
    /\ rq[r].pc = "idle"
    /\ turns < MaxTurns
    /\ \E message \in Messages, param \in SessionParams, file \in SessionFiles,
          saved \in {"ok", "raise"} :
        \E sid \in (IF param \in {"", "string"} THEN FreshIds ELSE {param}) :
            LET slot == chat_request(message, sid, file, saved)
            IN  /\ rq' = [rq EXCEPT ![r] = slot]
                /\ IF slot.pc = "route_initial"
                   THEN /\ memory' = [memory EXCEPT ![sid] = slot.state]
                        /\ turns' = turns + 1
                   ELSE UNCHANGED <<memory, turns>>
    /\ UNCHANGED <<vector_stores, builds, compVars, docVars>>

\* The graph ran node `name` of request r, which gave `out`, and moves to `next`;
\* the checkpointer saves the state.
RanNode(r, name, out, next) ==
    /\ rq' = [rq EXCEPT ![r].state = out.state,
                        ![r].nodes = Append(@, name),
                        ![r].invoked = @ \o out.invoked,
                        ![r].calls = @ \o out.calls,
                        ![r].pc = next]
    /\ memory' = [memory EXCEPT ![rq[r].sid] = out.state]
    /\ UNCHANGED <<turns, compVars, docVars>>

\* RAGWorkflow._route_initial and the routing after it
RouteInitial(r) ==
    /\ rq[r].pc = "route_initial"
    /\ RanNode(r, "route_initial", NodeOut(rq[r].state, <<>>, <<>>),
               route_decision(rq[r].state))
    /\ UNCHANGED <<vector_stores, builds>>

SessionValidate(r) ==
    /\ rq[r].pc = "validate_document"
    /\ \E llm \in ValidatorReplies :
        LET out == validate_document(rq[r].state, llm)
        IN  RanNode(r, "validate_document", out, should_process_document(out.state))
    /\ UNCHANGED <<vector_stores, builds>>

SessionProcess(r) ==
    /\ rq[r].pc = "process_document"
    /\ \E indexer \in {"ok", "raise"} :
        /\ RanNode(r, "process_document", process_document(rq[r].state, indexer),
                   "answer_question")
        /\ vector_stores' =
                process_document_stores(vector_stores, rq[r].state, indexer, builds + 1)
        /\ builds' = IF indexer = "ok" THEN builds + 1 ELSE builds

SessionAnswer(r) ==
    /\ rq[r].pc = "answer_question"
    /\ \E retrieval \in {"ok", "raise"}, llm \in ChatReplies :
        RanNode(r, "answer_question",
                answer_question(rq[r].state, vector_stores, retrieval, llm), "END")
    /\ UNCHANGED <<vector_stores, builds>>

SessionReject(r) ==
    /\ rq[r].pc = "handle_rejection"
    /\ RanNode(r, "handle_rejection", handle_rejection(rq[r].state), "END")
    /\ UNCHANGED <<vector_stores, builds>>

\* What the request answers once app.ainvoke has returned: RAGWorkflow.chat's
\* ChatResponse, or the endpoint's for an upload without a message.
chat_response(kind, sid, result) ==
    IF kind = "upload" THEN ChatResponse("", sid, TRUE)
    ELSE ChatResponse(result.response.value, sid, result.document_processed)

ChatRespond(r) ==
    /\ rq[r].pc = "END"
    /\ rq' = [rq EXCEPT ![r].pc = "responded",
                        ![r].http = chat_response(rq[r].kind, rq[r].sid, rq[r].state)]
    /\ UNCHANGED <<memory, vector_stores, builds, turns, compVars, docVars>>

\* The response is sent.
ChatDone(r) ==
    /\ rq[r].pc = "responded"
    /\ rq' = [rq EXCEPT ![r] = IdleRequest]
    /\ UNCHANGED <<memory, vector_stores, builds, turns, compVars, docVars>>

SessNext ==
    \E r \in Reqs :
        \/ ChatRequest(r)
        \/ RouteInitial(r)
        \/ SessionValidate(r)
        \/ SessionProcess(r)
        \/ SessionAnswer(r)
        \/ SessionReject(r)
        \/ ChatRespond(r)
        \/ ChatDone(r)

\* Requests for one session id that arrive while others for it are being handled:
\* chat_with_document and RAGWorkflow.chat take no lock, each request reads the
\* session's saved state when it arrives.
ConcurrentRequest(r) ==
    /\ rq[r].pc = "idle"
    /\ turns < MaxRace
    /\ \E message \in Messages, file \in SessionFiles, saved \in {"ok", "raise"} :
        LET slot == chat_request(message, "s1", file, saved)
        IN  /\ rq' = [rq EXCEPT ![r] = slot]
            /\ IF slot.pc = "route_initial"
               THEN /\ memory' = [memory EXCEPT !["s1"] = slot.state]
                    /\ turns' = turns + 1
               ELSE UNCHANGED <<memory, turns>>
    /\ UNCHANGED <<vector_stores, builds, compVars, docVars>>

ConcNext ==
    \E r \in Slots :
        \/ ConcurrentRequest(r)
        \/ RouteInitial(r)
        \/ SessionValidate(r)
        \/ SessionProcess(r)
        \/ SessionAnswer(r)
        \/ SessionReject(r)
        \/ ChatRespond(r)
        \/ ChatDone(r)

\* The service behind a call that the source gives no deadline never answers:
\* FAISS.from_documents in _process_document, retriever.invoke and chain.invoke in
\* _answer_question are awaited without asyncio.wait_for, so the node stays in the
\* call.
SessionBlocks(r) ==
    /\ \/ rq[r].pc = "process_document"
       \/ rq[r].pc = "answer_question" /\ vector_stores[rq[r].sid] # None
    /\ rq' = [rq EXCEPT ![r].pc = "blocked"]
    /\ UNCHANGED <<memory, vector_stores, builds, turns, compVars, docVars>>

UnresponsiveNext == SessNext \/ \E r \in Reqs : SessionBlocks(r)

---------------------------------------------------------------------------
\* The components called on their own, on every text and every reply.
CallValidator ==
    /\ comp.name = "none"
    /\ \E text \in Texts, llm \in ValidatorReplies :
        comp' = [name |-> "validator", text |-> text, llm |-> llm,
                 out |-> is_legal_document(text, llm)]
    /\ UNCHANGED <<docVars, sessVars>>

CallAnalyzer ==
    /\ comp.name = "none"
    /\ \E text \in Texts, llm \in AnalyzerReplies :
        comp' = [name |-> "analyzer", text |-> text, llm |-> llm,
                 out |-> analyze(text, llm)]
    /\ UNCHANGED <<docVars, sessVars>>

CallRejectionReasoner ==
    /\ comp.name = "none"
    /\ \E text \in Texts, llm \in RejectionReplies :
        comp' = [name |-> "rejection", text |-> text, llm |-> llm,
                 out |-> generate_rejection_reason(text, llm)]
    /\ UNCHANGED <<docVars, sessVars>>

\* The call's result is consumed; the component is stateless.
CompReturn ==
    /\ comp.name # "none"
    /\ comp' = [name |-> "none"]
    /\ UNCHANGED <<docVars, sessVars>>

CompNext == CallValidator \/ CallAnalyzer \/ CallRejectionReasoner \/ CompReturn

\* After construction: no component call, no analyze request, no session, no /chat
\* request.
Init ==
    /\ comp = [name |-> "none"]
    /\ dpc = "idle"
    /\ dstate = NoRun
    /\ dlog = EmptyLog
    /\ dhttp = None
    /\ memory = [s \in Sids |-> None]
    /\ vector_stores = [s \in Sids |-> None]
    /\ builds = 0
    /\ turns = 0
    /\ rq = [r \in Slots |-> IdleRequest]

\* The components alone.
SpecComp == Init /\ [][CompNext]_vars

\* The analyze endpoint and the Document Workflow.
Spec == Init /\ [][DocNext]_vars

\* A run's node is scheduled as soon as the previous node has returned, and every
\* external call returns, raises or times out.
FairSpec == Spec /\ WF_vars(DocNext)

\* The /chat endpoint and the Session Workflow, one turn after another.
SpecSession == Init /\ [][SessNext]_vars

\* The /chat endpoint with requests of one session handled at the same time, their
\* nodes interleaved.
SpecConcurrent == Init /\ [][ConcNext]_vars

\* The Session Workflow when the embedding and reasoning services may also never
\* answer.
SpecUnresponsive == Init /\ [][UnresponsiveNext]_vars

\* A node is scheduled as soon as the previous one has returned, and a call
\* returns whenever the service answers or the call's deadline expires.
FairUnresponsive == SpecUnresponsive /\ WF_vars(UnresponsiveNext)

---------------------------------------------------------------------------
\* Properties of the Document Workflow (Spec, FairSpec).

Count(seq, x) == Cardinality({i \in 1 .. Len(seq) : seq[i] = x})

InSeq(seq, x) == \E i \in 1 .. Len(seq) : seq[i] = x

ResultTypes == {"AnalyzerResponse", "RejectionResponse"}

\* C1: every completed run of process_document ends with result set to one value
\* that is an AnalyzerResponse or a RejectionResponse, never None, and the endpoint
\* answers it with status 200, whatever extraction, validation, analysis and
\* rejection-reason generation did.
C1_ResultIsOneOfTwo ==
    /\ dpc = "END" =>
        /\ dstate.result # None
        /\ dstate.result.type \in ResultTypes
    /\ (dpc = "responded" /\ dstate.file # None) =>
        /\ dhttp.status_code = 200
        /\ dhttp = analyze_response(dstate.result)

\* A run that ended on the analyzer's fallback for a failed service call.
C1_Witness ==
    /\ dpc = "END"
    /\ dstate.result = FallbackError
    /\ dlog.nodes = <<"extract_text", "validate_document", "analyze_document">>

\* C2: every run started at extract_text reaches END, no node runs twice in a run
\* and no exception leaves a node.
C2_RunTerminates ==
    /\ [](dpc # "aborted")
    /\ [](\A n \in {"extract_text", "validate_document", "analyze_document",
                    "generate_rejection"} : Count(dlog.nodes, n) <= 1)
    /\ ((dpc = "extract_text") ~> (dpc = "END"))

\* A run whose extraction failed has reached END through three nodes.
C2_Witness ==
    /\ dpc = "END"
    /\ dstate.error # None
    /\ Len(dlog.nodes) = 3

\* C3 as claimed: the analyzer runs, and the terminal result and the endpoint's
\* response are the accept shape with decision "accept", exactly when the validator
\* decided accept; every other run ends in a RejectionResponse with a non-empty
\* reason.
C3_AcceptIffValidatorAccepts ==
    dpc \in {"END", "responded"} /\ dstate.file # None =>
        LET accepted == dlog.decision = "accept"
            result == dstate.result
        IN  /\ InSeq(dlog.invoked, "analyzer") <=> accepted
            /\ accepted <=> (result.type = "AnalyzerResponse" /\ result.decision = "accept")
            /\ ~accepted => (result.type = "RejectionResponse" /\ result.reason # "")
            /\ dpc = "responded" =>
                /\ accepted => /\ dhttp.content.decision = "accept"
                               /\ hasattr(dhttp.content, "important_clauses")
                /\ ~accepted => /\ hasattr(dhttp.content, "reason")
                                /\ dhttp.content.reason # ""

\* C9: when extraction fails the run goes extract_text, validate_document,
\* generate_rejection; the result stays the RejectionResponse extract_text wrote,
\* neither the rejection reasoner nor the analyzer is invoked and no
\* reasoning-service call is issued.
C9_ExtractionFailurePassthrough ==
    dstate.error # None =>
        /\ dstate.result = extract_text_node(initial_state(dstate.file)).state.result
        /\ dstate.result.type = "RejectionResponse"
        /\ extract_text(dstate.file).raised
        /\ ~InSeq(dlog.invoked, "analyzer")
        /\ ~InSeq(dlog.invoked, "rejection")
        /\ dlog.calls = <<>>
        /\ dpc \in {"validate_document", "generate_rejection", "END", "responded"}
        /\ dpc \in {"END", "responded"} =>
            dlog.nodes = <<"extract_text", "validate_document", "generate_rejection">>

\* A run whose PDF parser timed out has ended.
C9_Witness ==
    /\ dpc = "END"
    /\ dstate.error # None
    /\ dstate.file.parse = "timeout"
    /\ dlog.nodes = <<"extract_text", "validate_document", "generate_rejection">>

---------------------------------------------------------------------------
\* Properties of the components (SpecComp).

\* C4: on every text shorter than 100 characters the validator returns reject and
\* issues no reasoning-service call.
C4_ShortTextRejectedWithoutCall ==
    (comp.name = "validator" /\ TextLen(comp.text) < MIN_LEN) =>
        /\ ~comp.out.raised
        /\ comp.out.value = ValidatorResponse("reject")
        /\ comp.out.calls = <<>>

\* A 99-character text on which the service would have answered accept.
C4_Witness ==
    /\ comp.name = "validator"
    /\ TextLen(comp.text) = MIN_LEN - 1
    /\ comp.text.pad = 0
    /\ comp.llm = [kind |-> "return", value |-> ValidatorResponse("accept")]

\* C5: the validator never raises; it returns accept only when the call returned
\* in time a well-formed result deciding accept, and reject on a timeout, a null or
\* malformed result and a raised error.
C5_ValidatorFailClosed ==
    comp.name = "validator" =>
        /\ ~comp.out.raised
        /\ comp.out.value \in {ValidatorResponse("accept"), ValidatorResponse("reject")}
        /\ comp.out.value.decision = "accept" =>
            /\ comp.llm = [kind |-> "return", value |-> ValidatorResponse("accept")]
            /\ Len(comp.out.calls) = 1
        /\ (comp.llm.kind \in {"timeout", "raise"}
                \/ comp.llm \in {[kind |-> "return", value |-> None],
                                 [kind |-> "return", value |-> Malformed]}) =>
            comp.out.value.decision = "reject"

\* The call was issued for a long text and timed out.
C5_Witness ==
    /\ comp.name = "validator"
    /\ comp.llm.kind = "timeout"
    /\ Len(comp.out.calls) = 1
    /\ comp.out.value.decision = "reject"

AnalyzerFailed(llm) ==
    llm.kind \in {"timeout", "raise"} \/ llm = [kind |-> "return", value |-> None]

\* C6: on a timeout, a raised error and a null result the analyzer returns, without
\* raising, an AnalyzerResponse with document_type "Unknown", a non-empty summary
\* and exactly 3 important_clauses.
C6_AnalyzerFallback ==
    (comp.name = "analyzer" /\ AnalyzerFailed(comp.llm)) =>
        /\ ~comp.out.raised
        /\ comp.out.value.type = "AnalyzerResponse"
        /\ comp.out.value.document_type = "Unknown"
        /\ comp.out.value.summary # ""
        /\ Len(comp.out.value.important_clauses) = 3

\* The service raised on the analysis of a text longer than the ceiling.
C6_Witness ==
    /\ comp.name = "analyzer"
    /\ comp.llm.kind = "raise"
    /\ TextLen(comp.text) > max_chars
    /\ comp.out.value = FallbackError

\* C7 as claimed: an AnalyzerResponse returned on the happy path has 3 to 5
\* important_clauses, whatever list the service returned.
C7_HappyPathClauseCount ==
    (comp.name = "analyzer" /\ comp.llm.kind = "return"
        /\ comp.llm.value \in AnalyzerValues) =>
            /\ Len(comp.out.value.important_clauses) >= 3
            /\ Len(comp.out.value.important_clauses) <= 5

\* C8: when the service raises or returns null the rejection reasoner returns,
\* without raising, one of its canned RejectionResponses: decision reject and a
\* non-empty reason.
C8_RejectionReasonerFallback ==
    (comp.name = "rejection"
        /\ (comp.llm.kind = "raise" \/ comp.llm = [kind |-> "return", value |-> None])) =>
        /\ ~comp.out.raised
        /\ comp.out.value \in {CannedNone, CannedError}
        /\ comp.out.value.type = "RejectionResponse"
        /\ comp.out.value.decision = "reject"
        /\ comp.out.value.reason # ""

\* The service answered the rejection-reason request with no structured result.
C8_Witness ==
    /\ comp.name = "rejection"
    /\ comp.llm = [kind |-> "return", value |-> None]
    /\ comp.out.value = CannedNone

---------------------------------------------------------------------------
\* Properties of the Session Workflow (SpecSession).

\* The request in slot r has been routed at the entry of its turn.
Routed(r) == rq[r].pc \notin {"idle", "route_initial"} /\ rq[r].kind # "refused"

\* The node the entry routing sent the turn to.
RoutedTo(r) == IF Len(rq[r].nodes) >= 2 THEN rq[r].nodes[2] ELSE rq[r].pc

\* C10 as claimed: a turn is routed to validate_document exactly when it carries
\* non-empty document content and the session was not already marked processed
\* when the turn began; every other turn goes straight to answer_question and
\* invokes neither the validator nor the indexer.
C10_EntryRouting ==
    \A r \in Reqs :
        (Routed(r) /\ rq[r].pc # "responded") =>
            LET carries == TextLen(rq[r].state.document_content) > 0
                fresh == ~rq[r].processed_at_entry
            IN  /\ (RoutedTo(r) = "validate_document") <=> (carries /\ fresh)
                /\ (RoutedTo(r) # "validate_document") =>
                    /\ RoutedTo(r) \in {"answer_question", "END"}
                    /\ rq[r].nodes[Len(rq[r].nodes)] \in {"route_initial", "answer_question"}
                    /\ ~InSeq(rq[r].invoked, "validator")
                    /\ ~InSeq(rq[r].invoked, "indexer")

\* The request in slot r is in a turn of the Session Workflow.
InTurn(r) == rq[r].pc # "idle" /\ rq[r].kind # "refused"

\* The turn of the request in slot r has run through its last node.
TurnEnded(r) == InTurn(r) /\ rq[r].pc \in {"END", "responded"}

\* The last node the turn in slot r ran.
LastNode(r) == rq[r].nodes[Len(rq[r].nodes)]

\* C11: a turn that reaches validate_document goes, on accept, to process_document,
\* which builds the session's index from the turn's document and sets processed
\* (or, when index building raised, leaves both as they were and sets the error
\* message); on reject, a validator failure included, it goes to handle_rejection,
\* which sets the refusal message, leaves processed false, builds no index and ends
\* the turn without the Answerer.
C11_RoutingAfterValidation ==
    \A r \in Reqs :
        (InTurn(r) /\ Len(rq[r].nodes) >= 2 /\ rq[r].nodes[2] = "validate_document") =>
            LET st == rq[r].state
                sid == rq[r].sid
                accepted == st.validation_result.decision = "accept"
            IN  /\ accepted => rq[r].pc # "handle_rejection"
                /\ ~accepted => rq[r].pc \notin {"process_document", "answer_question"}
                /\ Len(rq[r].nodes) >= 3 =>
                    rq[r].nodes[3] = IF accepted THEN "process_document"
                                     ELSE "handle_rejection"
                /\ (accepted /\ LastNode(r) = "process_document") =>
                    /\ rq[r].pc = "answer_question"
                    /\ InSeq(rq[r].invoked, "indexer")
                    /\ \/ /\ st.document_processed
                          /\ st.vector_store_id = sid
                          /\ vector_stores[sid] = IndexHandle(st.document_content, builds)
                          /\ memory[sid].document_processed
                       \/ /\ ~st.document_processed
                          /\ st.response = Str(IndexErrorMessage)
                          /\ vector_stores[sid] = rq[r].index_at_entry
                /\ (~accepted /\ Len(rq[r].nodes) >= 3) =>
                    /\ rq[r].nodes = <<"route_initial", "validate_document",
                                       "handle_rejection">>
                    /\ rq[r].pc \in {"END", "responded"}
                    /\ st.response = Str(RefusalMessage)
                    /\ ~st.document_processed
                    /\ ~memory[sid].document_processed
                    /\ ~InSeq(rq[r].invoked, "indexer")
                    /\ ~InSeq(rq[r].invoked, "retriever")
                    /\ ~InSeq(rq[r].invoked, "answerer")
                    /\ vector_stores[sid] = rq[r].index_at_entry

\* The validator's call raised on a long document and the turn ended in
\* handle_rejection.
C11_Witness ==
    \E r \in Reqs :
        /\ TurnEnded(r)
        /\ rq[r].nodes = <<"route_initial", "validate_document", "handle_rejection">>
        /\ rq[r].invoked = <<"validator">>
        /\ Len(rq[r].calls) = 1
        /\ rq[r].state.response = Str(RefusalMessage)

\* C12 as claimed: when index building raises in process_document the Answerer is
\* skipped and the turn returns the fixed error message; processed stays false and
\* no index is stored.
C12_IndexingFailureResponse ==
    \A r \in Reqs :
        (InTurn(r) /\ InSeq(rq[r].nodes, "process_document")
            /\ ~rq[r].state.document_processed) =>
            /\ ~InSeq(rq[r].nodes, "answer_question")
            /\ vector_stores[rq[r].sid] = rq[r].index_at_entry
            /\ ~memory[rq[r].sid].document_processed
            /\ TurnEnded(r) => rq[r].state.response = Str(IndexErrorMessage)
            /\ (rq[r].pc = "responded" /\ rq[r].kind = "chat") =>
                rq[r].http.response = IndexErrorMessage

\* C13 as claimed: once a session has an index no turn on that session invokes the
\* indexer successfully again and the stored index never changes.
C13_IndexImmutable ==
    \A r \in Reqs :
        (InTurn(r) /\ rq[r].index_at_entry # None) =>
            vector_stores[rq[r].sid] = rq[r].index_at_entry

\* C14 as claimed: when RAGWorkflow.chat receives a file for a session that an
\* earlier turn marked processed (the turn that built the session's index), the
\* file is not extracted, neither the validator nor the indexer is invoked, the turn
\* goes to answer_question with the existing index and the response reports
\* document_processed true.
C14_ReuploadGuard ==
    \A r \in Reqs :
        (InTurn(r) /\ rq[r].kind = "chat" /\ rq[r].file # None
            /\ rq[r].index_at_entry # None) =>
            /\ TextLen(rq[r].state.document_content) = 0
            /\ ~InSeq(rq[r].invoked, "validator")
            /\ ~InSeq(rq[r].invoked, "indexer")
            /\ Len(rq[r].nodes) >= 2 => rq[r].nodes[2] = "answer_question"
            /\ vector_stores[rq[r].sid] = rq[r].index_at_entry
            /\ rq[r].pc = "responded" => rq[r].http.document_processed

\* C15 as claimed: a session's saved processed flag, once true, is false in no later
\* saved state, and no later response of the session reports it false.
C15_FlagMonotonic ==
    [][/\ \A s \in Sids : SavedProcessed(s) => SavedProcessed(s)'
       /\ \A r \in Reqs :
            (rq'[r].pc = "responded" /\ rq'[r].kind # "refused"
                /\ rq'[r].processed_at_entry) => rq'[r].http.document_processed]_vars

IsPrefix(a, b) == Len(a) <= Len(b) /\ SubSeq(b, 1, Len(a)) = a

\* C16 as claimed: a turn starts from the history the session's previous turn ended
\* with, and at every point of the turn the session's history has the history at
\* the turn's start as a prefix.
C16_HistoryAppendOnly ==
    \A r \in Reqs :
        InTurn(r) =>
            /\ rq[r].pc = "route_initial" =>
                rq[r].state.messages = rq[r].messages_at_entry
            /\ IsPrefix(rq[r].messages_at_entry, rq[r].state.messages)
            /\ IsPrefix(rq[r].messages_at_entry, SavedMessages(rq[r].sid))

\* The reasoning-service call of the Answerer in the turn of slot r.
AnswererCall(r) == rq[r].calls[Len(rq[r].calls)]

\* The Answerer of the turn in slot r was given an answer by the service.
AnswerSucceeded(r) ==
    /\ TurnEnded(r)
    /\ InSeq(rq[r].invoked, "answerer")
    /\ rq[r].state.response = Str(Answer)

\* C17: a successful Answerer invocation leaves the history it was given, followed
\* by (user, the turn's question) and (assistant, the answer); the service was
\* asked with the history as it was before the two entries.
C17_AnswerAppendsPair ==
    \A r \in Reqs :
        AnswerSucceeded(r) =>
            LET st == rq[r].state
                call == AnswererCall(r)
            IN  /\ call.to = "answerer"
                /\ call.question = st.user_message
                /\ call.chat_history \in {rq[r].messages_at_entry, <<>>}
                /\ Len(st.messages) = Len(call.chat_history) + 2
                /\ st.messages = call.chat_history \o
                        <<[role |-> "user", content |-> st.user_message],
                          [role |-> "assistant", content |-> Answer]>>
                /\ SavedMessages(rq[r].sid) = st.messages

\* The second question of a session was answered from the first question and its
\* answer.
C17_Witness ==
    \E r \in Reqs :
        /\ AnswerSucceeded(r)
        /\ rq[r].kind = "chat"
        /\ rq[r].state.user_message = Question
        /\ Len(AnswererCall(r).chat_history) = 2
        /\ Len(rq[r].state.messages) = 4

AnswerFailed(r) ==
    /\ TurnEnded(r)
    /\ InSeq(rq[r].invoked, "retriever")
    /\ InSeq(rq[r].invoked, "answerer") =>
        AnswererCall(r).chat_history = rq[r].state.messages

\* C19: when retrieval or the reasoning-service call fails in the Answerer,
\* answer_question returns (it does not raise) with the fixed apology as the
\* response and the history as it was, and the turn completes with that response.
C19_AnswererFailSafe ==
    \A r \in Reqs :
        /\ (InTurn(r) /\ rq[r].pc = "answer_question"
                /\ vector_stores[rq[r].sid] # None) =>
            \A retrieval \in {"ok", "raise"}, llm \in ChatReplies :
                (retrieval = "raise" \/ llm.kind = "raise") =>
                    LET out == answer_question(rq[r].state, vector_stores, retrieval, llm)
                    IN  /\ ~out.raised
                        /\ out.state.response = Str(AnswerErrorMessage)
                        /\ out.state.messages = rq[r].state.messages
        /\ AnswerFailed(r) =>
            /\ rq[r].state.response = Str(AnswerErrorMessage)
            /\ (rq[r].pc = "responded" /\ rq[r].kind = "chat") =>
                /\ rq[r].http.status_code = 200
                /\ rq[r].http.response = AnswerErrorMessage

\* A question on an indexed session was answered with the apology after the
\* reasoning service raised.
C19_Witness ==
    \E r \in Reqs :
        /\ rq[r].pc = "responded"
        /\ rq[r].kind = "chat"
        /\ rq[r].invoked = <<"retriever", "answerer">>
        /\ rq[r].http.response = AnswerErrorMessage
        /\ rq[r].state.messages = rq[r].messages_at_entry

\* C20 as claimed: whenever the file-without-message path answers response "" and
\* document_processed true, the validator accepted the document and an index of it
\* is stored under the returned session id.
C20_UploadReportsIndexed ==
    \A r \in Reqs :
        (rq[r].pc = "responded" /\ rq[r].kind = "upload"
            /\ rq[r].http.response = "" /\ rq[r].http.document_processed) =>
            /\ rq[r].state.validation_result.decision = "accept"
            /\ vector_stores[rq[r].http.session_id] # None
            /\ vector_stores[rq[r].http.session_id].doc = rq[r].state.document_content

MessageRequired == Refused(400, "Message is required when no file is provided")

\* C21: a /chat request with neither a named file nor a non-blank message is
\* answered with the client error 400 before the Session Workflow is invoked: no
\* node runs, no external call is made, and the sessions' histories, processed
\* flags and indexes are as they were.
C21_EmptyRequestRefused ==
    [][\A r \in Reqs :
        /\ (rq[r].pc = "idle" /\ rq'[r].pc # "idle") =>
            \A message \in Messages, file \in SessionFiles, sid \in Sids,
               saved \in {"ok", "raise"} :
                ((message = None \/ StripMessage(message) = "")
                    /\ (file = None \/ file.filename = "")) =>
                    chat_request(message, sid, file, saved) = MessageRequired
        /\ (rq'[r].pc # "idle" /\ rq'[r].kind = "refused") =>
            /\ rq'[r].pc = "responded"
            /\ rq'[r].http.status_code >= 400
            /\ UNCHANGED <<memory, vector_stores, builds, turns>>]_vars

\* A request with neither file nor message was refused on a server that holds a
\* session with an index and a history.
C21_Witness ==
    \E r \in Reqs :
        /\ rq[r] = MessageRequired
        /\ \E s \in Sids : vector_stores[s] # None /\ Len(SavedMessages(s)) = 2

\* C22: a step of a turn for one session id leaves the saved state (history,
\* processed flag) and the index of every other session id as they were, and the
\* Answerer retrieves from the index stored under the turn's own session id.
C22_SessionIsolation ==
    [][/\ \A s \in Sids :
            (memory'[s] # memory[s] \/ vector_stores'[s] # vector_stores[s]) =>
                \E r \in Reqs : InTurn(r)' /\ rq'[r].sid = s
       /\ \A r \in Reqs :
            (InTurn(r)' /\ rq[r].pc = "answer_question" /\ rq'[r].pc = "END"
                /\ InSeq(rq'[r].invoked, "answerer")) =>
                /\ AnswererCall(r)'.context = vector_stores[rq'[r].sid]
                /\ \A s \in Sids \ {rq'[r].sid} :
                    AnswererCall(r)'.context # vector_stores[s]]_vars

\* A question of session s2 was answered while session s1 holds an index of its
\* own.
C22_Witness ==
    \E r \in Reqs :
        /\ AnswerSucceeded(r)
        /\ rq[r].sid = "s2"
        /\ vector_stores["s1"] # None
        /\ vector_stores["s2"] # None

\* The refusals chat_with_document raises itself.
EndpointRefusals ==
    {Refused(400, "Only PDF and DOCX files are supported"), MessageRequired,
     Refused(500, "Failed to process document")}

\* C24 as claimed: extraction, validator and Answerer failures of a session turn are
\* absorbed into a response value RAGWorkflow.chat returns; no exception of theirs
\* reaches the caller, so every refusal of a request is the endpoint's own.
C24_OnlyIndexingCrosses ==
    \A r \in Reqs :
        /\ (rq[r].pc = "responded" /\ rq[r].kind = "refused") =>
            rq[r] \in EndpointRefusals
        /\ (rq[r].pc = "responded" /\ rq[r].kind = "chat") =>
            rq[r].http.status_code = 200

\* C26 as claimed: a Document Workflow run invokes the validator exactly once and
\* at most one of analyzer and rejection reasoner; a session turn invokes the
\* validator at most once, and never on a session that already has its document
\* accepted and indexed.
C26_ValidatorOncePerDocument ==
    /\ (dpc \in {"END", "responded"} /\ dstate.file # None) =>
        /\ Count(dlog.invoked, "validator") = 1
        /\ ~(InSeq(dlog.invoked, "analyzer") /\ InSeq(dlog.invoked, "rejection"))
    /\ \A r \in Reqs :
        InTurn(r) =>
            /\ Count(rq[r].invoked, "validator") <= 1
            /\ rq[r].index_at_entry # None => ~InSeq(rq[r].invoked, "validator")

\* The turn in slot r had its document accepted and indexed.
IndexedInTurn(r) ==
    /\ InTurn(r)
    /\ InSeq(rq[r].nodes, "process_document")
    /\ rq[r].state.document_processed

\* C28: a turn whose document is accepted and indexed runs validate_document,
\* process_document, answer_question in that order; the index of the turn's
\* document is stored before the Answerer runs, the Answerer runs once with the
\* turn's message on that index, and the turn's response is the Answerer's, which
\* RAGWorkflow.chat returns with document_processed true.
C28_AcceptedTurnOrder ==
    \A r \in Reqs :
        IndexedInTurn(r) =>
            LET st == rq[r].state
                sid == rq[r].sid
            IN  /\ IsPrefix(rq[r].nodes, <<"route_initial", "validate_document",
                                           "process_document", "answer_question">>)
                /\ vector_stores[sid] # None
                /\ vector_stores[sid].doc = st.document_content
                /\ rq[r].pc = "answer_question" => ~InSeq(rq[r].invoked, "retriever")
                /\ TurnEnded(r) =>
                    /\ Count(rq[r].nodes, "answer_question") = 1
                    /\ Count(rq[r].invoked, "retriever") = 1
                    /\ Count(rq[r].invoked, "answerer") <= 1
                    /\ InSeq(rq[r].invoked, "answerer") =>
                        /\ AnswererCall(r).question = st.user_message
                        /\ AnswererCall(r).context = vector_stores[sid]
                    /\ st.response \in {Str(Answer), Str(AnswerErrorMessage)}
                    /\ (rq[r].pc = "responded" /\ rq[r].kind = "chat") =>
                        rq[r].http = ChatResponse(st.response.value, sid, TRUE)

\* A question sent with a document was answered from that document in one turn.
C28_Witness ==
    \E r \in Reqs :
        /\ IndexedInTurn(r)
        /\ rq[r].pc = "responded"
        /\ rq[r].kind = "chat"
        /\ rq[r].http = ChatResponse(Answer, rq[r].sid, TRUE)

\* C29 as claimed: a session's saved processed flag is true exactly when an index is
\* stored for the session, and a response reporting document_processed true belongs
\* to a session that has an index.
C29_FlagIffIndex ==
    /\ \A s \in Sids : SavedProcessed(s) <=> vector_stores[s] # None
    /\ \A r \in Reqs :
        (rq[r].pc = "responded" /\ rq[r].kind # "refused"
            /\ rq[r].http.document_processed) =>
            vector_stores[rq[r].http.session_id] # None

Alternates(history) ==
    /\ Len(history) % 2 = 0
    /\ \A i \in 1 .. Len(history) :
        history[i].role = IF i % 2 = 1 THEN "user" ELSE "assistant"

\* C30: every saved history, and the history of every turn in progress, has even
\* length and alternates user, assistant, user, assistant.
C30_HistoryAlternates ==
    /\ \A s \in Sids : Alternates(SavedMessages(s))
    /\ \A r \in Reqs : InTurn(r) => Alternates(rq[r].state.messages)

\* A session holds two questions with their answers, and a third turn ended on the
\* apology without touching them.
C30_Witness ==
    \E r \in Reqs :
        /\ TurnEnded(r)
        /\ rq[r].state.response = Str(AnswerErrorMessage)
        /\ Len(SavedMessages(rq[r].sid)) = 4

---------------------------------------------------------------------------
\* Properties of the Session Workflow with unresponsive services
\* (FairUnresponsive).

\* C25 as claimed: every external call has a deadline, so every session turn that
\* starts reaches the end of its graph run even when the embedding or reasoning
\* service never answers.
C25_TurnsComplete ==
    \A r \in Reqs : (rq[r].pc = "route_initial") ~> (rq[r].pc = "END")

---------------------------------------------------------------------------
\* Properties of concurrent turns of one session (SpecConcurrent).

\* The turns in slots a and b are of one session, both began while the session was
\* unprocessed and had no index, and both have indexed their document.
Raced(a, b) ==
    /\ a # b
    /\ IndexedInTurn(a)
    /\ IndexedInTurn(b)
    /\ rq[a].sid = rq[b].sid
    /\ ~rq[a].processed_at_entry /\ rq[a].index_at_entry = None
    /\ ~rq[b].processed_at_entry /\ rq[b].index_at_entry = None

\* C23: turns of one session are not serialized. Whenever two turns of an
\* unprocessed session both read processed false, both were validated and both
\* built an index: the session is left with the later build alone, and when both
\* were answered the saved history holds one (user, assistant) pair, the other
\* turn's pair being overwritten.
C23_UnserializedTurns ==
    \A a, b \in Slots :
        Raced(a, b) =>
            LET sid == rq[a].sid
            IN  /\ InSeq(rq[a].invoked, "validator")
                /\ InSeq(rq[b].invoked, "validator")
                /\ InSeq(rq[a].invoked, "indexer")
                /\ InSeq(rq[b].invoked, "indexer")
                /\ builds = 2
                /\ vector_stores[sid].build = 2
                /\ vector_stores[sid].doc \in
                        {rq[a].state.document_content, rq[b].state.document_content}
                /\ (AnswerSucceeded(a) /\ AnswerSucceeded(b)) =>
                    /\ Len(rq[a].state.messages) = 2
                    /\ Len(rq[b].state.messages) = 2
                    /\ Len(SavedMessages(sid)) = 2
                    /\ SavedMessages(sid) \in {rq[a].state.messages, rq[b].state.messages}

\* Two turns with question and document raced on session s1: both were routed to
\* validation and indexed, both were answered, and the session holds the second
\* build and one pair of history.
C23_Witness ==
    /\ Raced(1, 2)
    /\ AnswerSucceeded(1)
    /\ AnswerSucceeded(2)
    /\ rq[1].kind = "chat"
    /\ rq[2].kind = "chat"
    /\ rq[1].nodes[2] = "validate_document"
    /\ rq[2].nodes[2] = "validate_document"
    /\ vector_stores[rq[1].sid].build = 2
    /\ Len(SavedMessages(rq[1].sid)) = 2

---------------------------------------------------------------------------
\* Further properties of the Session Workflow (SpecSession).

\* Index building raised in the turn of slot r.
IndexingFailed(r) ==
    /\ InTurn(r)
    /\ InSeq(rq[r].nodes, "process_document")
    /\ ~rq[r].state.document_processed

\* C31 as claimed: a turn that ends in handle_rejection, in the no-index message,
\* in the Answerer's apology or in an indexing error leaves the session's history
\* as it was at the start of the turn.
C31_HistoryFrame ==
    \A r \in Reqs :
        (TurnEnded(r)
            /\ \/ rq[r].state.response \in
                    {Str(RefusalMessage), Str(NoIndexMessage), Str(AnswerErrorMessage)}
               \/ IndexingFailed(r)) =>
            /\ rq[r].state.messages = rq[r].messages_at_entry
            /\ SavedMessages(rq[r].sid) = rq[r].messages_at_entry

\* C32: a turn that ended in handle_rejection or in an indexing error leaves the
\* session unprocessed, the turn after a rejection starts from an unprocessed
\* session, and a turn that carries an extracted file for an unprocessed session is
\* routed to validate_document and, when its document is accepted and indexed,
\* marks the session processed.
C32_SlotNotConsumed ==
    \A r \in Reqs :
        InTurn(r) =>
            /\ (TurnEnded(r) /\ (LastNode(r) = "handle_rejection" \/ IndexingFailed(r))) =>
                ~SavedProcessed(rq[r].sid)
            /\ (rq[r].pc = "route_initial"
                    /\ rq[r].state.response = Str(RefusalMessage)) =>
                ~rq[r].processed_at_entry
            /\ (rq[r].file # None /\ ~rq[r].processed_at_entry) =>
                /\ TextLen(rq[r].state.document_content) > 0
                /\ Len(rq[r].nodes) >= 2 => rq[r].nodes[2] = "validate_document"
                /\ IndexedInTurn(r) =>
                    /\ SavedProcessed(rq[r].sid)
                    /\ vector_stores[rq[r].sid].doc = rq[r].state.document_content
                    /\ (rq[r].pc = "responded") => rq[r].http.document_processed

\* The session's previous turn ended in handle_rejection (its refusal is still the
\* saved response); this turn carried a file, was validated again, accepted and
\* indexed, and the session is marked processed.
C32_Witness ==
    \E r \in Reqs :
        /\ InTurn(r)
        /\ rq[r].pc = "answer_question"
        /\ rq[r].state.response = Str(RefusalMessage)
        /\ rq[r].nodes = <<"route_initial", "validate_document", "process_document">>
        /\ rq[r].state.document_processed
        /\ SavedProcessed(rq[r].sid)

====
